---- MODULE Spec2Model ----
(***************************************************************************)
(* Health-report extraction pipeline of health-action-squad:              *)
(* HealthReportParser (src/src/parsers/health_report_parser.py) with the  *)
(* GeminiStructuredExtractor fallback (src/src/parsers/llm_fallback.py).  *)
(*                                                                         *)
(* Field maps are functions from a finite set of keys to values.  Python  *)
(* values are represented by strings: NoneV is None, EmptyStr is "",      *)
(* ZeroV is the number 0 (0 / 0.0) and every other string is a truthy     *)
(* value (a non-empty string or a non-zero number).                       *)
(* A completeness score present/7 is represented by its numerator.        *)
(***************************************************************************)
EXTENDS Integers, Sequences, FiniteSets, TLC

VARIABLES
    \* ---- pure-function harness (SpecScorer, SpecMerge)
    upc,            \* "off" | "args" | "returned"
    data1,          \* first argument (a field map)
    data2,          \* second argument (a field map)
    score_ret,      \* value returned by _check_completeness, -1 before the call
    merged_ret,     \* value returned by _merge_data
    \* ---- parser instance (HealthReportParser.__init__)
    min_completeness_threshold,   \* [num, den], the float num/den
    use_llm_fallback,             \* instance setting
    preprocess_images,            \* instance setting
    \* ---- the call in progress
    entry,          \* "none" | "parse" | "parse_batch"
    file_paths,     \* sequence of the files handed to the call
    override,       \* per-call use_llm_fallback: "None" | "True" | "False"
    merge_results,  \* parse_batch argument
    \* ---- one parse coroutine per file
    pc,             \* position of each parse coroutine
    images,         \* number of page images of each file
    ocr_data,       \* data returned by _extract_from_ocr
    ocr_completeness, \* numerator of the score returned by _extract_from_ocr
    gate_completeness, \* numerator of the score compared with the threshold
    llm_data,       \* data returned by llm_extractor.extract
    envelope,       \* the dict returned by parse
    calls,          \* external steps performed for the file, in order
    \* ---- parse_batch
    done_order,     \* indices of the parse coroutines in completion order
    batch_result,   \* the dict returned by parse_batch
    \* ---- harness of the other pure functions
    fargs,          \* the arguments of the call
    fret,           \* what the call gave back
    \* ---- GeminiStructuredExtractor.extract_with_retry
    rpc,            \* "off" | "loop" | "returned"
    retry_input,    \* [file, is_text]: the file_or_text and is_text arguments
    max_retries,    \* the max_retries argument
    attempt,        \* the loop variable of range(max_retries)
    attempts,       \* per attempt made: requests issued, result, seconds slept
    retry_ret,      \* the value returned
    \* ---- PDFConverter
    conv,           \* the conversion calls made, in call order
    disk,           \* page image path -> the conversion call that wrote it last
    conv_output     \* convert_multiple_pdfs: its state and the dict it returns

uvars == <<upc, data1, data2, score_ret, merged_ret>>
cfgvars == <<min_completeness_threshold, use_llm_fallback, preprocess_images>>
callvars == <<entry, file_paths, override, merge_results>>
taskvars == <<pc, images, ocr_data, ocr_completeness, gate_completeness,
              llm_data, envelope, calls>>
batchvars == <<done_order, batch_result>>
fnvars == <<fargs, fret>>
retryvars == <<rpc, retry_input, max_retries, attempt, attempts, retry_ret>>
convvars == <<conv, disk, conv_output>>
auxvars == <<fnvars, retryvars, convvars>>
vars == <<uvars, cfgvars, callvars, taskvars, batchvars, auxvars>>

----------------------------------------------------------------------------
\* Bounds of the model

\* number of non-required keys a scored map may carry
NumExtraKeys == 1
\* number of keys of the maps handed to _merge_data in SpecMerge
NumMergeKeys == 2
\* largest number of files of one parse_batch call
MaxFiles == 2
\* largest number of pages of a PDF
MaxPages == 2

----------------------------------------------------------------------------
\* Values and field maps

NoneV == "<None>"
EmptyStr == ""
ZeroV == "<0>"

\* Python truthiness of a value: None, "" and 0 are falsy
Falsy(v) == v \in {NoneV, EmptyStr, ZeroV}

EmptyMap == [k \in {} |-> NoneV]

\* all dicts with keys among K and values among V
MapsOver(K, V) == UNION {[S -> V] : S \in SUBSET K}

\* dict literal helpers
Put(m, k, v) == [x \in DOMAIN m \cup {k} |-> IF x = k THEN v ELSE m[x]]

\* HealthReportParser.REQUIRED_FIELDS
REQUIRED_FIELDS ==
    {"blood_pressure", "cholesterol", "glucose", "bmi",
     "heart_rate", "temperature", "oxygen_saturation"}

\* keys that are not required fields
ExtraKeyName(n) == IF n = 1 THEN "weight" ELSE IF n = 2 THEN "height" ELSE "hdl"
ExtraKeys == {ExtraKeyName(n) : n \in 1..NumExtraKeys}

\* an order on the keys, used to pick the keys of SpecMerge
MergeKeyName(n) ==
    IF n = 1 THEN "bmi" ELSE IF n = 2 THEN "weight" ELSE "glucose"
MergeKeys == {MergeKeyName(n) : n \in 1..NumMergeKeys}

----------------------------------------------------------------------------
\* HealthReportParser._check_completeness: the numerator of present / 7

\* a required field counts when the key is in the dict and its value is not None
FieldCounts(data, field) == field \in DOMAIN data /\ data[field] # NoneV

\* the variant that also rejects empty strings
FieldCountsNonEmpty(data, field) ==
    field \in DOMAIN data /\ data[field] # NoneV /\ data[field] # EmptyStr

_check_completeness(data) ==
    IF DOMAIN data = {} THEN 0
    ELSE Cardinality({field \in REQUIRED_FIELDS : FieldCounts(data, field)})

\* HealthReportParser._merge_data: data1.copy(), then every key of data2 that
\* is missing from it or whose value in it is falsy is assigned from data2
\* the condition without the test for an empty value
MergeTakesSecondWhenMissing(merged, key) == key \notin DOMAIN merged

MergeTakesSecond(merged, key) == key \notin DOMAIN merged \/ Falsy(merged[key])

\* the merge in which the secondary value wins wherever it is present
MergeSecondaryWins(d1, d2) ==
    [key \in DOMAIN d1 \cup DOMAIN d2 |->
        IF key \in DOMAIN d2 THEN d2[key] ELSE d1[key]]

_merge_data(d1, d2) ==
    [key \in DOMAIN d1 \cup DOMAIN d2 |->
        IF key \in DOMAIN d2 /\ MergeTakesSecond(d1, key) THEN d2[key] ELSE d1[key]]

----------------------------------------------------------------------------
\* Files

\* Config.MAX_FILE_SIZE, in MB
ConfigMaxFileSizeMB == 10
\* GeminiStructuredExtractor.MAX_FILE_SIZE, in MB
LlmMaxFileSizeMB == 100

\* a file on disk: its path, whether it exists, the suffix of the path, its size
MkFile(path, exists, suffix, size_mb) ==
    [path |-> path, exists |-> exists, suffix |-> suffix, size_mb |-> size_mb]

\* the files a single parse call may be given
Files ==
    { MkFile("missing.pdf", FALSE, ".pdf", 0),
      MkFile("notes.txt", TRUE, ".txt", 1),
      MkFile("scan.pdf", TRUE, ".pdf", 1),
      MkFile("photo.jpg", TRUE, ".jpg", 1),
      MkFile("huge.jpg", TRUE, ".jpg", ConfigMaxFileSizeMB + 1),
      MkFile("giant.PNG", TRUE, ".PNG", LlmMaxFileSizeMB + 1) }

\* the files a parse_batch call may be given
BatchFiles == {f \in Files : f.path \in {"missing.pdf", "notes.txt", "photo.jpg"}}

\* str.lower() on the suffixes in use, then lstrip(".")
LowerExtension(suffix) ==
    CASE suffix \in {".pdf", ".PDF"} -> "pdf"
      [] suffix \in {".jpg", ".JPG"} -> "jpg"
      [] suffix \in {".jpeg", ".JPEG"} -> "jpeg"
      [] suffix \in {".png", ".PNG"} -> "png"
      [] suffix \in {".txt", ".TXT"} -> "txt"
      [] OTHER -> "unknown"

\* the members of the FileType enum besides UNKNOWN
FileTypeMembers == {"pdf", "jpg", "jpeg", "png"}
ImageFileTypes == {"jpg", "jpeg", "png"}

\* the detection without the test that the path exists
DetectFileTypeBySuffixOnly(f) ==
    LET extension == LowerExtension(f.suffix)
    IN  IF extension \in FileTypeMembers THEN extension ELSE "unknown"

\* HealthReportParser._detect_file_type
_detect_file_type(f) ==
    IF ~f.exists THEN "FileNotFoundError"
    ELSE LET extension == LowerExtension(f.suffix)
         IN  IF extension \in FileTypeMembers THEN extension ELSE "unknown"

----------------------------------------------------------------------------
\* OCR stage: HealthReportParser._extract_from_ocr over the pages' reports

\* what PaddleOCRHealthReportParser.parse returns for one page
MkReport(patient_info, vital_signs) ==
    [raised |-> FALSE, patient_info |-> patient_info, vital_signs |-> vital_signs]

\* the page on which saving the image, creating the engine or parse raises
PageFailure == [raised |-> TRUE, patient_info |-> EmptyMap, vital_signs |-> EmptyMap]

PageReports ==
    { MkReport(EmptyMap, EmptyMap),
      MkReport([bmi |-> "a"], [systolic_bp |-> "a", diastolic_bp |-> "a"]),
      MkReport([bmi |-> "b", weight_kg |-> "b", height_cm |-> "b"],
               [systolic_bp |-> "b", diastolic_bp |-> "b", total_cholesterol |-> "b"]) }

PageOutcomes == PageReports \cup {PageFailure}

SetMin(S) == CHOOSE x \in S : \A y \in S : x <= y
SetMax(S) == CHOOSE x \in S : \A y \in S : x >= y

\* patient_info: the first non-empty patient_info of the pages
MergedPatientInfo(reports) ==
    LET with == {p \in 1..Len(reports) : DOMAIN reports[p].patient_info # {}}
    IN  IF with = {} THEN EmptyMap ELSE reports[SetMin(with)].patient_info

\* all_vital_signs: every page assigns its metrics over the earlier pages'
AllVitalSigns(reports) ==
    LET names == UNION {DOMAIN reports[p].vital_signs : p \in 1..Len(reports)}
    IN  [m \in names |->
            reports[SetMax({p \in 1..Len(reports) : m \in DOMAIN reports[p].vital_signs})]
                .vital_signs[m]]

\* extracted_data: the vital signs' values, then bmi, weight, height
ExtractedData(reports) ==
    LET vs == AllVitalSigns(reports)
        pi == MergedPatientInfo(reports)
        d1 == IF "bmi" \in DOMAIN pi THEN Put(vs, "bmi", pi["bmi"]) ELSE vs
        d2 == IF "weight_kg" \in DOMAIN pi THEN Put(d1, "weight", pi["weight_kg"]) ELSE d1
    IN  IF "height_cm" \in DOMAIN pi THEN Put(d2, "height", pi["height_cm"]) ELSE d2

\* field_mapping of _extract_from_ocr
FieldMapping ==
    [systolic_bp |-> "blood_pressure", total_cholesterol |-> "cholesterol",
     fasting_glucose |-> "glucose"]

\* present_count of _extract_from_ocr
OcrPresentCount(extracted) ==
    Cardinality({req \in REQUIRED_FIELDS :
        \/ req \in DOMAIN extracted
        \/ \E ocr_field \in DOMAIN FieldMapping :
              FieldMapping[ocr_field] = req /\ ocr_field \in DOMAIN extracted})

\* _extract_from_ocr: (extracted_data, numerator of completeness_score); any
\* page that raises lands in the except clause, which returns ({}, 0.0)
_extract_from_ocr(reports) ==
    IF \E p \in 1..Len(reports) : reports[p].raised
    THEN [data |-> EmptyMap, completeness |-> 0]
    ELSE [data |-> ExtractedData(reports),
          completeness |-> OcrPresentCount(ExtractedData(reports))]

----------------------------------------------------------------------------
\* Fallback: GeminiStructuredExtractor.extract

\* what the model call gives back: it raises (API error, timeout), or returns a
\* text that is not JSON, a JSON list, or a JSON object
LlmResponses ==
    { [kind |-> "error"], [kind |-> "invalid"], [kind |-> "list"],
      [kind |-> "object", fields |-> EmptyMap],
      [kind |-> "object", fields |-> [glucose |-> "a", bmi |-> "c"]],
      [kind |-> "object", fields |-> [temperature |-> EmptyStr]],
      [kind |-> "fenced", fields |-> [glucose |-> "b"]] }

\* an exception leaving a function that returns a dict: a map with this one key
Raise(exception) == [x \in {"<exception>"} |-> exception]
Raises(result) == "<exception>" \in DOMAIN result

\* _parse_json_response: the dict, bare or between ``` markers, {} for JSON
\* that is no object, ValueError for a text that is not JSON
_parse_json_response(response) ==
    CASE response.kind \in {"object", "fenced"} -> response.fields
      [] response.kind = "list" -> EmptyMap
      [] OTHER -> Raise("ValueError")

\* TRUE when extract(file) issues a request to the model
IssuesRequest(f) ==
    /\ f.exists
    /\ LowerExtension(f.suffix) \in ImageFileTypes
    /\ f.size_mb <= LlmMaxFileSizeMB

\* extract(file_path) without its except clause
ExtractUncaught(f, response) ==
    IF ~f.exists THEN Raise("FileNotFoundError")
    ELSE IF LowerExtension(f.suffix) = "pdf" THEN EmptyMap
    ELSE IF ~IssuesRequest(f) THEN Raise("ValueError")
    ELSE IF response.kind = "error" THEN Raise("Exception")
    ELSE _parse_json_response(response)

\* extract(file_path): every exception is caught and {} returned; a PDF is
\* answered {} without a request
extract(f, response) ==
    IF ~IssuesRequest(f) THEN EmptyMap
    ELSE IF response.kind \in {"error", "invalid"} THEN EmptyMap
    ELSE _parse_json_response(response)

----------------------------------------------------------------------------
\* The pipeline: HealthReportParser.parse and parse_batch

\* min_completeness_threshold values: the default 0.7 and 1/7
Thresholds == {[num |-> 7, den |-> 10], [num |-> 1, den |-> 7]}

\* the comparison with <= in place of <
AtOrBelowThreshold(present, threshold) == present * threshold.den <= 7 * threshold.num

\* completeness < self.min_completeness_threshold, completeness = present/7
BelowThreshold(present, threshold) == present * threshold.den < 7 * threshold.num

\* use_llm_fallback if use_llm_fallback is not None else self.use_llm_fallback
EffectiveFallback(per_call, instance) ==
    IF per_call # "None" THEN per_call = "True" ELSE instance

NoEnvelope == [source |-> "none"]
NoBatchResult == [pending |-> TRUE]

\* the dict of the except clause of parse
ErrorEnvelope(f, message) ==
    [data |-> EmptyMap, completeness |-> 0, source |-> "error",
     file_path |-> f.path, error |-> message]

\* the dict parse returns at the end of the try block
ResultEnvelope(f, data, completeness, source) ==
    [data |-> data, completeness |-> completeness, source |-> source,
     file_path |-> f.path, file_type |-> _detect_file_type(f)]

Tasks == 1..Len(file_paths)

NoArgs == [fn |-> "none"]
NoReturn == [kind |-> "pending"]

\* no call of extract_with_retry
NoRetryCall ==
    /\ rpc = "off"
    /\ retry_input = NoArgs
    /\ max_retries = 0
    /\ attempt = 0
    /\ attempts = <<>>
    /\ retry_ret = EmptyMap

\* no file written by a converter, no call of convert_multiple_pdfs
NoOutput == [state |-> "none"]
EmptyDisk == [path \in {} |-> 0]

\* no call of the PDF converter
NoConversion ==
    /\ conv = <<>>
    /\ disk = EmptyDisk
    /\ conv_output = NoOutput

\* no call of the other pure functions, of extract_with_retry or of the converter
AuxIdle ==
    /\ fargs = NoArgs
    /\ fret = NoReturn
    /\ NoRetryCall
    /\ NoConversion

\* no call made yet, no pure-function harness
Idle ==
    /\ AuxIdle
    /\ upc = "off"
    /\ data1 = EmptyMap
    /\ data2 = EmptyMap
    /\ score_ret = -1
    /\ merged_ret = EmptyMap
    /\ entry = "none"
    /\ file_paths = <<>>
    /\ override = "None"
    /\ merge_results = TRUE
    /\ pc = <<>>
    /\ images = <<>>
    /\ ocr_data = <<>>
    /\ ocr_completeness = <<>>
    /\ gate_completeness = <<>>
    /\ llm_data = <<>>
    /\ envelope = <<>>
    /\ calls = <<>>
    /\ done_order = <<>>
    /\ batch_result = NoBatchResult

\* HealthReportParser(min_completeness_threshold, use_llm_fallback, preprocess_images)
Init ==
    /\ min_completeness_threshold \in Thresholds
    /\ use_llm_fallback \in BOOLEAN
    /\ preprocess_images \in BOOLEAN
    /\ Idle

\* HealthReportParser(use_llm_fallback = ...), the other arguments at their defaults
InitBatch ==
    /\ min_completeness_threshold = [num |-> 7, den |-> 10]
    /\ use_llm_fallback \in BOOLEAN
    /\ preprocess_images = TRUE
    /\ Idle

\* the coroutines of a call, one per file, before their first step
StartTasks(fs) ==
    /\ file_paths' = fs
    /\ pc' = [i \in 1..Len(fs) |-> "start"]
    /\ images' = [i \in 1..Len(fs) |-> 0]
    /\ ocr_data' = [i \in 1..Len(fs) |-> EmptyMap]
    /\ ocr_completeness' = [i \in 1..Len(fs) |-> 0]
    /\ gate_completeness' = [i \in 1..Len(fs) |-> 0]
    /\ llm_data' = [i \in 1..Len(fs) |-> EmptyMap]
    /\ envelope' = [i \in 1..Len(fs) |-> NoEnvelope]
    /\ calls' = [i \in 1..Len(fs) |-> <<>>]

\* a caller awaits parser.parse(file_path, use_llm_fallback)
CallParse ==
    /\ entry = "none"
    /\ \E f \in Files, ov \in {"None", "True", "False"} :
          /\ entry' = "parse"
          /\ override' = ov
          /\ StartTasks(<<f>>)
    /\ UNCHANGED <<auxvars, uvars, cfgvars, merge_results, batchvars>>

\* a caller awaits parser.parse_batch(file_paths, merge_results): the
\* coroutines self.parse(fp) are created and handed to asyncio.gather
CallParseBatch ==
    /\ entry = "none"
    /\ \E n \in 0..MaxFiles, mr \in BOOLEAN :
          \E fs \in [1..n -> BatchFiles] :
              /\ entry' = "parse_batch"
              /\ merge_results' = mr
              /\ StartTasks(fs)
    /\ UNCHANGED <<auxvars, uvars, cfgvars, override, batchvars>>

\* parse returns env for task i
Return(i, env) ==
    /\ pc' = [pc EXCEPT ![i] = "done"]
    /\ envelope' = [envelope EXCEPT ![i] = env]
    /\ done_order' = Append(done_order, i)

\* the step taken with the images in hand, without step 3
OcrWithoutNormalizing(preprocess, file_type) == "ocr"

\* if self.preprocess_images and file_type in (JPG, JPEG, PNG): step 3, else step 4
StepAfterLoad(preprocess, file_type) ==
    IF preprocess /\ file_type \in ImageFileTypes THEN "normalizing" ELSE "ocr"

\* parse, steps 1 and 2: detect the file type, load the file into images.
\* A PDF is rasterized into 1..MaxPages pages, an image is opened; both may raise.
ParseStart(i) ==
    /\ pc[i] = "start"
    /\ LET f == file_paths[i]
           file_type == _detect_file_type(f)
       IN  \/ /\ file_type = "FileNotFoundError"
              /\ Return(i, ErrorEnvelope(f, "File not found"))
              /\ UNCHANGED <<images, calls>>
           \/ /\ file_type = "unknown"
              /\ Return(i, ErrorEnvelope(f, "Unsupported file type"))
              /\ UNCHANGED <<images, calls>>
           \/ /\ file_type = "pdf"
              /\ calls' = [calls EXCEPT ![i] = Append(@, "rasterize")]
              /\ \/ /\ Return(i, ErrorEnvelope(f, "PDF conversion failed"))
                    /\ UNCHANGED images
                 \/ \E n \in 1..MaxPages :
                       /\ images' = [images EXCEPT ![i] = n]
                       /\ pc' = [pc EXCEPT ![i] =
                                   StepAfterLoad(preprocess_images, file_type)]
                       /\ UNCHANGED <<envelope, done_order>>
           \/ /\ file_type \in ImageFileTypes
              /\ calls' = [calls EXCEPT ![i] = Append(@, "load")]
              /\ \/ /\ Return(i, ErrorEnvelope(f, "cannot identify image file"))
                    /\ UNCHANGED images
                 \/ /\ images' = [images EXCEPT ![i] = 1]
                    /\ pc' = [pc EXCEPT ![i] =
                                StepAfterLoad(preprocess_images, file_type)]
                    /\ UNCHANGED <<envelope, done_order>>
    /\ UNCHANGED <<auxvars, uvars, cfgvars, callvars, ocr_data, ocr_completeness,
                   gate_completeness, llm_data, batch_result>>

\* parse, step 3: asyncio.to_thread(self.image_preprocessor.preprocess) ends,
\* with the processed array or with ValueError
Normalize(i) ==
    /\ pc[i] = "normalizing"
    /\ calls' = [calls EXCEPT ![i] = Append(@, "normalize")]
    /\ \/ /\ pc' = [pc EXCEPT ![i] = "ocr"]
          /\ UNCHANGED <<envelope, done_order>>
       \/ Return(i, ErrorEnvelope(file_paths[i], "Failed to preprocess image"))
    /\ UNCHANGED <<auxvars, uvars, cfgvars, callvars, images, ocr_data, ocr_completeness,
                   gate_completeness, llm_data, batch_result>>

\* parse, steps 4 to 6: asyncio.to_thread(self._extract_from_ocr) ends, the
\* completeness of its data is checked and either the fallback is started or
\* the OCR result is returned
OcrDone(i) ==
    /\ pc[i] = "ocr"
    /\ \E reports \in [1..images[i] -> PageOutcomes] :
          LET ocr == _extract_from_ocr(reports)
              completeness == _check_completeness(ocr.data)
          IN  /\ ocr_data' = [ocr_data EXCEPT ![i] = ocr.data]
              /\ ocr_completeness' = [ocr_completeness EXCEPT ![i] = ocr.completeness]
              /\ gate_completeness' = [gate_completeness EXCEPT ![i] = completeness]
              /\ calls' = [calls EXCEPT ![i] = Append(@, "ocr")]
              /\ IF /\ EffectiveFallback(override, use_llm_fallback)
                    /\ BelowThreshold(completeness, min_completeness_threshold)
                 THEN /\ pc' = [pc EXCEPT ![i] = "fallback"]
                      /\ UNCHANGED <<envelope, done_order>>
                 ELSE Return(i, ResultEnvelope(file_paths[i], ocr.data,
                                               completeness, "ocr"))
    /\ UNCHANGED <<auxvars, uvars, cfgvars, callvars, images, llm_data, batch_result>>

\* parse, step 6: await self.llm_extractor.extract(file_path) ends; its data
\* is merged under the OCR data and the completeness is checked again.
\* A loaded file has at least one image, so `if images` holds; extract
\* catches every exception, so the except clause of step 6 is not entered.
FallbackDone(i) ==
    /\ pc[i] = "fallback"
    /\ \E response \in LlmResponses :
          LET llm == extract(file_paths[i], response)
              final_data == _merge_data(ocr_data[i], llm)
          IN  /\ llm_data' = [llm_data EXCEPT ![i] = llm]
              /\ calls' = [calls EXCEPT ![i] = Append(@, "fallback")]
              /\ Return(i, ResultEnvelope(file_paths[i], final_data,
                                          _check_completeness(final_data),
                                          "hybrid"))
    /\ UNCHANGED <<auxvars, uvars, cfgvars, callvars, images, ocr_data, ocr_completeness,
                   gate_completeness, batch_result>>

\* the results in the order in which the coroutines completed
GatherResultsAsCompleted(envelopes, order) ==
    [k \in 1..Len(envelopes) |-> envelopes[order[k]]]

\* asyncio.gather(*tasks): the results in the order of the awaitables
GatherResults(envelopes, order) == envelopes

\* for result in results: if result["data"]: merged = _merge_data(merged, ...)
RECURSIVE MergeFold(_, _)
MergeFold(results, n) ==
    IF n = 0 THEN EmptyMap
    ELSE LET merged == MergeFold(results, n - 1)
         IN  IF DOMAIN results[n].data # {}
             THEN _merge_data(merged, results[n].data)
             ELSE merged

\* the dict parse_batch returns
BatchResult(results, merge) ==
    LET merged_data == IF merge THEN MergeFold(results, Len(results)) ELSE EmptyMap
    IN  [results |-> results,
         merged_data |-> IF merge THEN merged_data ELSE NoneV,
         overall_completeness |-> _check_completeness(merged_data)]

\* parse_batch after asyncio.gather has returned
BatchGather ==
    /\ entry = "parse_batch"
    /\ batch_result = NoBatchResult
    /\ \A i \in Tasks : pc[i] = "done"
    /\ batch_result' = BatchResult(GatherResults(envelope, done_order), merge_results)
    /\ UNCHANGED <<auxvars, uvars, cfgvars, callvars, taskvars, done_order>>

\* one parse call on one parser
Next ==
    \/ CallParse
    \/ \E i \in Tasks : ParseStart(i)
    \/ \E i \in Tasks : Normalize(i)
    \/ \E i \in Tasks : OcrDone(i)
    \/ \E i \in Tasks : FallbackDone(i)

Spec == Init /\ [][Next]_vars

\* The steps of parse that end by the program's own work: loading, the
\* normalizing and OCR threads, and a fallback that issues no request.
\* self.client.generate_content(content) is called without a timeout, so
\* nothing in parse ends a fallback whose request is not answered.
EndsByItself(i) ==
    /\ i \in Tasks
    /\ \/ ParseStart(i)
       \/ Normalize(i)
       \/ OcrDone(i)
       \/ ~IssuesRequest(file_paths[i]) /\ FallbackDone(i)

\* one parse call whose own steps are always taken in the end
SpecLive == Init /\ [][Next]_vars /\ \A i \in 1..MaxFiles : WF_vars(EndsByItself(i))

\* one parse_batch call on one parser
NextBatch ==
    \/ CallParseBatch
    \/ \E i \in Tasks : ParseStart(i)
    \/ \E i \in Tasks : Normalize(i)
    \/ \E i \in Tasks : OcrDone(i)
    \/ \E i \in Tasks : FallbackDone(i)
    \/ BatchGather

SpecBatch == InitBatch /\ [][NextBatch]_vars

\* what parse_batch is left with when CancelledError is raised at its await
CancelledBatch == [cancelled |-> TRUE]

\* an except clause that names no class
ExceptEverything(exception) == TRUE

\* except Exception as e: asyncio.CancelledError derives from BaseException
ExceptException(exception) ==
    exception \notin {"CancelledError", "KeyboardInterrupt", "SystemExit"}

\* the tasks that have not returned, in the order of the awaitables
Unfinished ==
    SelectSeq([k \in 1..Len(file_paths) |-> k], LAMBDA k : pc[k] # "done")

\* the caller cancels parse_batch while it awaits asyncio.gather(*tasks): gather
\* cancels every child that has not finished, CancelledError is raised in each
\* at the await it is suspended at (or before its first step), and gather
\* raises CancelledError in parse_batch, which has no except clause.
\* Steps 1, 2 and 6 of parse never suspend, so no task is inside them then.
CancelBatch ==
    /\ entry = "parse_batch"
    /\ batch_result = NoBatchResult
    /\ \A i \in Tasks : pc[i] # "fallback"
    /\ LET caught == ExceptException("CancelledError")
       IN  /\ pc' = [i \in Tasks |->
                        IF pc[i] = "done" \/ caught THEN "done" ELSE "cancelled"]
           /\ envelope' = [i \in Tasks |->
                              IF pc[i] # "done" /\ caught
                              THEN ErrorEnvelope(file_paths[i], "CancelledError")
                              ELSE envelope[i]]
           /\ done_order' = IF caught THEN done_order \o Unfinished ELSE done_order
    /\ batch_result' = CancelledBatch
    /\ UNCHANGED <<auxvars, uvars, cfgvars, callvars, images, ocr_data, ocr_completeness,
                   gate_completeness, llm_data, calls>>

\* one parse_batch call that the caller may cancel
NextCancel == NextBatch \/ CancelBatch

SpecCancel == InitBatch /\ [][NextCancel]_vars

----------------------------------------------------------------------------
\* Harness for the pure functions: the arguments are drawn in the initial
\* state and one action applies the function to them

\* values a scored field may hold
ScoreValues == {NoneV, EmptyStr, ZeroV, "a"}
\* values a merged field may hold
MergeValues == {NoneV, EmptyStr, ZeroV, "a", "b"}

\* the parser at its defaults, no parse or parse_batch call in progress
ParserAtDefaults ==
    /\ min_completeness_threshold = [num |-> 7, den |-> 10]
    /\ use_llm_fallback = TRUE
    /\ preprocess_images = TRUE
    /\ entry = "none"
    /\ file_paths = <<>>
    /\ override = "None"
    /\ merge_results = TRUE
    /\ pc = <<>>
    /\ images = <<>>
    /\ ocr_data = <<>>
    /\ ocr_completeness = <<>>
    /\ gate_completeness = <<>>
    /\ llm_data = <<>>
    /\ envelope = <<>>
    /\ calls = <<>>
    /\ done_order = <<>>
    /\ batch_result = NoBatchResult

\* the parser at its defaults, no call in progress
NoCall == AuxIdle /\ ParserAtDefaults

\* the arguments of one call of a pure function, drawn from Args
FnHarness(Args) ==
    /\ fargs \in Args
    /\ fret = NoReturn
    /\ NoRetryCall
    /\ NoConversion
    /\ upc = "off"
    /\ data1 = EmptyMap
    /\ data2 = EmptyMap
    /\ score_ret = -1
    /\ merged_ret = EmptyMap
    /\ ParserAtDefaults

InitScorer ==
    /\ upc = "args"
    /\ data1 \in MapsOver(REQUIRED_FIELDS \cup ExtraKeys, ScoreValues)
    /\ data2 = EmptyMap
    /\ score_ret = -1
    /\ merged_ret = EmptyMap
    /\ NoCall

\* parser._check_completeness(data1)
CheckCompleteness ==
    /\ upc = "args"
    /\ score_ret' = _check_completeness(data1)
    /\ upc' = "returned"
    /\ UNCHANGED <<auxvars, data1, data2, merged_ret, cfgvars, callvars, taskvars, batchvars>>

SpecScorer == InitScorer /\ [][CheckCompleteness]_vars

InitMerge ==
    /\ upc = "args"
    /\ data1 \in MapsOver(MergeKeys, MergeValues)
    /\ data2 \in MapsOver(MergeKeys, MergeValues)
    /\ score_ret = -1
    /\ merged_ret = EmptyMap
    /\ NoCall

\* parser._merge_data(data1, data2)
MergeData ==
    /\ upc = "args"
    /\ merged_ret' = _merge_data(data1, data2)
    /\ upc' = "returned"
    /\ UNCHANGED <<auxvars, data1, data2, score_ret, cfgvars, callvars, taskvars, batchvars>>

SpecMerge == InitMerge /\ [][MergeData]_vars

----------------------------------------------------------------------------
\* GeminiStructuredExtractor.extract_with_retry

\* largest max_retries argument
MaxRetries == 3

\* a text handed over with is_text = True; as a path it names no file
TextInput == MkFile("Health report text", FALSE, "", 0)

\* the (file_or_text, is_text) arguments
RetryInputs ==
    {[file |-> f, is_text |-> FALSE] : f \in Files \cup {TextInput}}
        \cup {[file |-> TextInput, is_text |-> TRUE]}

\* TRUE when extract(file_or_text, is_text) calls generate_content:
\* _extract_from_text always does, _extract_from_image after its checks
CallsGenerateContent(input) == input.is_text \/ IssuesRequest(input.file)

\* extract(file_or_text, is_text): _extract_from_text for a text, the
\* file-based path otherwise; every exception is caught and {} returned
extract_call(input, response) ==
    IF ~input.is_text THEN extract(input.file, response)
    ELSE IF response.kind \in {"error", "invalid"} THEN EmptyMap
    ELSE _parse_json_response(response)

\* membership in a range that includes its upper end
InRangeInclusive(k, n) == k <= n

\* k in range(n), for k >= 0
InRange(k, n) == k < n

InitRetry ==
    /\ Idle
    /\ min_completeness_threshold = [num |-> 7, den |-> 10]
    /\ use_llm_fallback = TRUE
    /\ preprocess_images = TRUE

\* a caller awaits extractor.extract_with_retry(file_or_text, is_text,
\* max_retries); with an empty range the loop body is skipped and {} returned
CallExtractWithRetry ==
    /\ rpc = "off"
    /\ \E input \in RetryInputs, n \in 0..MaxRetries :
          /\ retry_input' = input
          /\ max_retries' = n
          /\ rpc' = IF InRange(0, n) THEN "loop" ELSE "returned"
    /\ UNCHANGED <<fnvars, convvars, attempt, attempts, retry_ret,
                   uvars, cfgvars, callvars, taskvars, batchvars>>

\* one pass of the loop body: await self.extract(...) ends.  extract catches
\* every exception, so the except clause with its asyncio.sleep is not
\* entered: a truthy result is returned, a falsy one goes to the next pass
\* or, after the last pass, to the final return {}.
ExtractAttempt ==
    /\ rpc = "loop"
    /\ \E response \in LlmResponses :
          LET result == extract_call(retry_input, response)
              made == [requests |-> IF CallsGenerateContent(retry_input) THEN 1 ELSE 0,
                       result |-> result,
                       slept |-> 0]
          IN  /\ attempts' = Append(attempts, made)
              /\ IF result # EmptyMap
                 THEN /\ rpc' = "returned"
                      /\ retry_ret' = result
                      /\ UNCHANGED attempt
                 ELSE IF InRange(attempt + 1, max_retries)
                 THEN /\ attempt' = attempt + 1
                      /\ UNCHANGED <<rpc, retry_ret>>
                 ELSE /\ rpc' = "returned"
                      /\ retry_ret' = EmptyMap
                      /\ UNCHANGED attempt
    /\ UNCHANGED <<fnvars, convvars, retry_input, max_retries,
                   uvars, cfgvars, callvars, taskvars, batchvars>>

NextRetry == CallExtractWithRetry \/ ExtractAttempt

SpecRetry == InitRetry /\ [][NextRetry]_vars

\* the arguments of one extract call and the answer the model will give
ExtractArgs ==
    {[fn |-> "extract", input |-> input, response |-> response] :
        input \in RetryInputs, response \in LlmResponses}

InitExtract == FnHarness(ExtractArgs)

\* what a call gave back: the value returned, or the exception it raised
Outcome(result) ==
    IF Raises(result) THEN [kind |-> "raised", value |-> result]
    ELSE [kind |-> "returned", value |-> result]

\* await extractor.extract(file_or_text, is_text)
Extract ==
    /\ fargs.fn = "extract"
    /\ fret = NoReturn
    /\ fret' = Outcome(extract_call(fargs.input, fargs.response))
    /\ UNCHANGED <<fargs, retryvars, convvars, uvars, cfgvars, callvars, taskvars, batchvars>>

SpecExtract == InitExtract /\ [][Extract]_vars

----------------------------------------------------------------------------
\* Python float arithmetic (IEEE 754 binary64, round to nearest, ties to
\* even) on the positive values _resize_for_ocr computes.  A float is
\* [bits, exp]: MantissaBits bits, most significant first and bits[1] = 1,
\* the first of weight 2^exp.  Long numbers are handled digit by digit so
\* that no intermediate value leaves the 32-bit integers.

\* significand width of a Python float
MantissaBits == 53

\* exponents of the quotients 1000 / min_edge and 2000 / max_edge
Exponents == -16..16

\* digits of the quotient's fraction, and the digits of a product
DivBase == 2^16
DivDigitBits == 16
FractionDigits == 5
MulBase == 2^8

\* bits[i], 0 beyond the ends
BitAt(bits, i) == IF i \in 1..Len(bits) THEN bits[i] ELSE 0

\* the number written by the eight bits from..from+7
Int8(bits, from) ==
    128 * BitAt(bits, from) + 64 * BitAt(bits, from + 1)
        + 32 * BitAt(bits, from + 2) + 16 * BitAt(bits, from + 3)
        + 8 * BitAt(bits, from + 4) + 4 * BitAt(bits, from + 5)
        + 2 * BitAt(bits, from + 6) + BitAt(bits, from + 7)

\* the first n digits of the fraction r / b for r < b, and the remainder
RECURSIVE DivDigits(_, _, _)
DivDigits(r, b, n) ==
    IF n = 0 THEN [digits |-> <<>>, rem |-> r]
    ELSE LET rest == DivDigits((r * DivBase) % b, b, n - 1)
         IN  [digits |-> <<(r * DivBase) \div b>> \o rest.digits, rem |-> rest.rem]

\* bits + 1, for bits that are not all 1
Increment(bits) ==
    LET z == SetMax({i \in 1..Len(bits) : bits[i] = 0})
    IN  [i \in 1..Len(bits) |-> IF i < z THEN bits[i] ELSE IF i = z THEN 1 ELSE 0]

\* rounding of a significand of more than MantissaBits bits: to nearest, a
\* tie to the even neighbour; sticky tells of non-zero digits beyond bits
RoundToFloat(bits, exp, sticky) ==
    LET keep == SubSeq(bits, 1, MantissaBits)
        guard == BitAt(bits, MantissaBits + 1)
        below == sticky \/ \E i \in (MantissaBits + 2)..Len(bits) : bits[i] = 1
        up == guard = 1 /\ (below \/ keep[MantissaBits] = 1)
    IN  IF ~up THEN [bits |-> keep, exp |-> exp]
        ELSE IF \E i \in 1..MantissaBits : keep[i] = 0
        THEN [bits |-> Increment(keep), exp |-> exp]
        ELSE [bits |-> [i \in 1..MantissaBits |-> IF i = 1 THEN 1 ELSE 0],
              exp |-> exp + 1]

\* a / b for positive ints: the correctly rounded quotient
FloatDiv(a, b) ==
    LET exp == CHOOSE e \in Exponents :
                  IF e >= 0 THEN 2^e * b <= a /\ a < 2^(e + 1) * b
                  ELSE b <= 2^(-e) * a /\ 2^(-e) * a < 2 * b
        whole == a \div b
        fraction == DivDigits(a % b, b, FractionDigits)
        \* the bit of weight 2^t of a / b
        bit(t) ==
            IF t >= 0 THEN (whole \div 2^t) % 2
            ELSE LET j == -t - 1
                 IN  (fraction.digits[j \div DivDigitBits + 1]
                         \div 2^(DivDigitBits - 1 - (j % DivDigitBits))) % 2
        bits == [i \in 1..(exp + FractionDigits * DivDigitBits + 1) |-> bit(exp + 1 - i)]
    IN  RoundToFloat(bits, exp, fraction.rem # 0)

\* the digits of digits * n + carry, least significant first
RECURSIVE MulDigits(_, _, _, _)
MulDigits(digits, n, i, carry) ==
    IF i > Len(digits) THEN <<carry % MulBase, carry \div MulBase>>
    ELSE LET d == digits[i] * n + carry
         IN  <<d % MulBase>> \o MulDigits(digits, n, i + 1, d \div MulBase)

\* n * x for an int 0 < n < 2^16 and a float x: the correctly rounded product
FloatMulInt(n, x) ==
    LET padded == <<0, 0, 0>> \o x.bits
        count == Len(padded) \div 8
        digits == [i \in 1..count |-> Int8(padded, 8 * (count - i) + 1)]
        product == MulDigits(digits, n, 1, 0)
        \* the bit of weight 2^p of the product of the significand and n
        bit(p) == (product[p \div 8 + 1] \div 2^(p % 8)) % 2
        top == SetMax({p \in 0..(8 * Len(product) - 1) : bit(p) = 1})
        bits == [i \in 1..(top + 1) |-> bit(top + 1 - i)]
    IN  RoundToFloat(bits, x.exp + top - (MantissaBits - 1), FALSE)

\* int(x): the integer part of a positive float below 2^24
FloatToInt(x) ==
    IF x.exp < 0 THEN 0
    ELSE (65536 * Int8(x.bits, 1) + 256 * Int8(x.bits, 9) + Int8(x.bits, 17))
            \div 2^(23 - x.exp)

----------------------------------------------------------------------------
\* SimpleMobilePreprocessor._resize_for_ocr, on the shape of the image

\* if min_edge < 1000
MinEdgeTarget == 1000
\* elif max_edge > 2000
MaxEdgeTarget == 2000

Min2(a, b) == IF a <= b THEN a ELSE b
Max2(a, b) == IF a >= b THEN a ELSE b

\* the shape of cv2.resize(image, (int(width * scale), int(height * scale)))
Resized(height, width, scale) ==
    [height |-> FloatToInt(FloatMulInt(height, scale)),
     width |-> FloatToInt(FloatMulInt(width, scale))]

_resize_for_ocr(height, width) ==
    LET min_edge == Min2(height, width)
        max_edge == Max2(height, width)
    IN  IF min_edge < MinEdgeTarget
        THEN Resized(height, width, FloatDiv(MinEdgeTarget, min_edge))
        ELSE IF max_edge > MaxEdgeTarget
        THEN Resized(height, width, FloatDiv(MaxEdgeTarget, max_edge))
        ELSE [height |-> height, width |-> width]

\* edge lengths of the images handed to the preprocessor, in pixels
EdgeLengths == {1, 19, 100, 500, 999, 1000, 1500, 2000, 2001, 3000, 5000}

ResizeArgs ==
    {[fn |-> "_resize_for_ocr", height |-> h, width |-> w] :
        h \in EdgeLengths, w \in EdgeLengths}

InitResize == FnHarness(ResizeArgs)

\* preprocessor._resize_for_ocr(image)
ResizeForOcr ==
    /\ fargs.fn = "_resize_for_ocr"
    /\ fret = NoReturn
    /\ fret' = [kind |-> "returned",
                value |-> _resize_for_ocr(fargs.height, fargs.width)]
    /\ UNCHANGED <<fargs, retryvars, convvars, uvars, cfgvars, callvars, taskvars, batchvars>>

SpecResize == InitResize /\ [][ResizeForOcr]_vars

----------------------------------------------------------------------------
\* PaddleOCRHealthReportParser._assess_*_risk.  A value is given in tenths
\* of its unit (200 mg/dL is 2000, 5.7 % is 57).

\* largest value assessed, in tenths
MaxTenths == 2500

\* the cholesterol assessment with its cut-points in the lower band
CholesterolRiskInclusive(value) ==
    IF value <= 2000 THEN "normal"
    ELSE IF value <= 2400 THEN "borderline"
    ELSE "high"

_assess_cholesterol_risk(value) ==
    IF value < 2000 THEN "normal"
    ELSE IF value < 2400 THEN "borderline"
    ELSE "high"

_assess_ldl_risk(value) ==
    IF value < 1000 THEN "normal"
    ELSE IF value < 1300 THEN "borderline"
    ELSE IF value < 1600 THEN "borderline_high"
    ELSE "high"

_assess_hdl_risk(value) ==
    IF value >= 600 THEN "normal"
    ELSE IF value >= 400 THEN "borderline"
    ELSE "high"

_assess_triglyceride_risk(value) ==
    IF value < 1500 THEN "normal"
    ELSE IF value < 2000 THEN "borderline"
    ELSE "high"

_assess_systolic_bp_risk(value) ==
    IF value < 1200 THEN "normal"
    ELSE IF value < 1300 THEN "elevated"
    ELSE IF value < 1400 THEN "stage1"
    ELSE "high"

_assess_diastolic_bp_risk(value) ==
    IF value < 800 THEN "normal"
    ELSE IF value < 900 THEN "stage1"
    ELSE "high"

_assess_fasting_glucose_risk(value) ==
    IF value < 1000 THEN "normal"
    ELSE IF value < 1260 THEN "borderline"
    ELSE "high"

_assess_hba1c_risk(value) ==
    IF value < 57 THEN "normal"
    ELSE IF value < 65 THEN "borderline"
    ELSE "high"

_assess_waist_risk(value) ==
    IF value < 800 THEN "normal"
    ELSE IF value < 900 THEN "borderline"
    ELSE "high"

\* the metrics of _extract_vital_signs that carry a risk_level
RiskMetrics ==
    {"total_cholesterol", "ldl_cholesterol", "hdl_cholesterol", "triglycerides",
     "systolic_bp", "diastolic_bp", "fasting_glucose", "hba1c",
     "waist_circumference"}

\* risk_level = self._assess_..._risk(value) of each metric
risk_level(metric, value) ==
    CASE metric = "total_cholesterol" -> _assess_cholesterol_risk(value)
      [] metric = "ldl_cholesterol" -> _assess_ldl_risk(value)
      [] metric = "hdl_cholesterol" -> _assess_hdl_risk(value)
      [] metric = "triglycerides" -> _assess_triglyceride_risk(value)
      [] metric = "systolic_bp" -> _assess_systolic_bp_risk(value)
      [] metric = "diastolic_bp" -> _assess_diastolic_bp_risk(value)
      [] metric = "fasting_glucose" -> _assess_fasting_glucose_risk(value)
      [] metric = "hba1c" -> _assess_hba1c_risk(value)
      [] metric = "waist_circumference" -> _assess_waist_risk(value)

RiskArgs ==
    {[fn |-> "risk_level", metric |-> m, value |-> v] :
        m \in RiskMetrics, v \in 0..MaxTenths}

InitRisk == FnHarness(RiskArgs)

\* parser._assess_..._risk(value)
AssessRisk ==
    /\ fargs.fn = "risk_level"
    /\ fret = NoReturn
    /\ fret' = [kind |-> "returned", value |-> risk_level(fargs.metric, fargs.value)]
    /\ UNCHANGED <<fargs, retryvars, convvars, uvars, cfgvars, callvars, taskvars, batchvars>>

SpecRisk == InitRisk /\ [][AssessRisk]_vars

----------------------------------------------------------------------------
\* PaddleOCRHealthReportParser._extract_test_date.  A text is a sequence of
\* characters; the characters for year, month and day of the Chinese date
\* format are written "nian", "yue" and "ri", a newline is "LF".

Digits == {"0", "1", "2", "3", "4", "5", "6", "7", "8", "9"}
DigitChars == <<"0", "1", "2", "3", "4", "5", "6", "7", "8", "9">>
Whitespace == {" ", "LF"}
LowerCase ==
    {"a", "b", "c", "d", "e", "f", "g", "h", "i", "j", "k", "l", "m",
     "n", "o", "p", "q", "r", "s", "t", "u", "v", "w", "x", "y", "z"}

\* "\n".join([b["text"] for b in text_blocks])
RECURSIVE JoinBlocks(_)
JoinBlocks(blocks) ==
    IF Len(blocks) = 0 THEN <<>>
    ELSE IF Len(blocks) = 1 THEN blocks[1]
    ELSE blocks[1] \o <<"LF">> \o JoinBlocks(Tail(blocks))

\* text.translate(...) on the characters in use: the full-width colon
HalfWidth(c) == IF c = "fwcolon" THEN ":" ELSE c

\* _normalize_text on the characters in use: full-width to half-width, then
\* re.sub(r"\s+", " ", text)
_normalize_text(text) ==
    LET kept == {i \in 1..Len(text) :
                    text[i] \notin Whitespace \/ i = 1 \/ text[i - 1] \notin Whitespace}
        nth(k) == CHOOSE i \in kept : Cardinality({j \in kept : j < i}) = k - 1
    IN  [k \in 1..Cardinality(kept) |->
            IF text[nth(k)] \in Whitespace THEN " " ELSE HalfWidth(text[nth(k)])]

\* text[p], "" past the end
CharAt(text, p) == IF p \in 1..Len(text) THEN text[p] ELSE ""

\* text[p..q], "" for the positions past the end
Slice(text, p, q) == [i \in 1..(q - p + 1) |-> CharAt(text, p + i - 1)]

AllDigits(text, p, n) == \A k \in 0..(n - 1) : CharAt(text, p + k) \in Digits

\* (\d{m,n}) followed by one of the characters after: the length of the
\* group matched at p, 0 when there is no match
DigitGroup(text, p, lengths, after) ==
    LET fits == {n \in lengths : AllDigits(text, p, n) /\ CharAt(text, p + n) \in after}
    IN  IF fits = {} THEN 0 ELSE SetMax(fits)

\* (\d{1,2}) at the end of a pattern: greedy
LastDigitGroup(text, p) ==
    IF AllDigits(text, p, 2) THEN 2 ELSE IF AllDigits(text, p, 1) THEN 1 ELSE 0

\* (202\d) at p
Year202At(text, p) ==
    /\ CharAt(text, p) = "2" /\ CharAt(text, p + 1) = "0" /\ CharAt(text, p + 2) = "2"
    /\ CharAt(text, p + 3) \in Digits

\* the number of characters of text from p on that are in chars
RECURSIVE RunLength(_, _, _)
RunLength(text, p, chars) ==
    IF CharAt(text, p) \in chars THEN 1 + RunLength(text, p + 1, chars) ELSE 0

\* (M)yue(D)ri at p, after the year group: the two groups, <<>> for no match
MonthDayAt(text, p) ==
    LET n2 == DigitGroup(text, p, {1, 2}, {"yue"})
        p3 == p + n2 + 1
        n3 == DigitGroup(text, p3, {1, 2}, {"ri"})
    IN  IF n2 = 0 \/ n3 = 0 THEN <<>>
        ELSE <<Slice(text, p, p + n2 - 1), Slice(text, p3, p3 + n3 - 1)>>

MonthAbbreviations ==
    <<<<"J", "a", "n">>, <<"F", "e", "b">>, <<"M", "a", "r">>, <<"A", "p", "r">>,
      <<"M", "a", "y">>, <<"J", "u", "n">>, <<"J", "u", "l">>, <<"A", "u", "g">>,
      <<"S", "e", "p">>, <<"O", "c", "t">>, <<"N", "o", "v">>, <<"D", "e", "c">>>>

\* match.groups() of date_patterns[k] matched at p, <<>> when it does not match
GroupsAt(k, text, p) ==
    CASE k = 1 ->
            \* (\d{2,3})nian(\d{1,2})yue(\d{1,2})ri
            LET n1 == DigitGroup(text, p, {2, 3}, {"nian"})
                rest == MonthDayAt(text, p + n1 + 1)
            IN  IF n1 = 0 \/ rest = <<>> THEN <<>>
                ELSE <<Slice(text, p, p + n1 - 1)>> \o rest
      [] k = 2 ->
            \* (202\d)nian(\d{1,2})yue(\d{1,2})ri
            LET rest == MonthDayAt(text, p + 5)
            IN  IF ~Year202At(text, p) \/ CharAt(text, p + 4) # "nian" \/ rest = <<>>
                THEN <<>>
                ELSE <<Slice(text, p, p + 3)>> \o rest
      [] k = 3 ->
            \* (202\d)[/\-](\d{1,2})[/\-](\d{1,2})
            LET n2 == DigitGroup(text, p + 5, {1, 2}, {"/", "-"})
                p3 == p + 5 + n2 + 1
                n3 == LastDigitGroup(text, p3)
            IN  IF \/ ~Year202At(text, p) \/ CharAt(text, p + 4) \notin {"/", "-"}
                   \/ n2 = 0 \/ n3 = 0
                THEN <<>>
                ELSE <<Slice(text, p, p + 3), Slice(text, p + 5, p + 4 + n2),
                       Slice(text, p3, p3 + n3 - 1)>>
      [] k = 4 ->
            \* (?:Jan|...|Dec)[a-z]*\s+(\d{1,2}),?\s+(202\d)
            LET q == p + 3 + RunLength(text, p + 3, LowerCase)
                d == q + RunLength(text, q, Whitespace)
                \* ,?\s+(202\d) at r: the position of the year, 0 for no match
                year_at(r) ==
                    LET r2 == IF CharAt(text, r) = "," THEN r + 1 ELSE r
                        y == r2 + RunLength(text, r2, Whitespace)
                    IN  IF y > r2 /\ Year202At(text, y) THEN y ELSE 0
                fits == {n \in {1, 2} : AllDigits(text, d, n) /\ year_at(d + n) > 0}
            IN  IF \/ \A m \in 1..12 : Slice(text, p, p + 2) # MonthAbbreviations[m]
                   \/ d = q \/ fits = {}
                THEN <<>>
                ELSE LET n == SetMax(fits)
                         y == year_at(d + n)
                     IN  <<Slice(text, d, d + n - 1), Slice(text, y, y + 3)>>

\* re.search(date_patterns[k], text): the groups of the leftmost match
SearchGroups(k, text) ==
    LET starts == {p \in 1..Len(text) : GroupsAt(k, text, p) # <<>>}
    IN  IF starts = {} THEN <<>> ELSE GroupsAt(k, text, SetMin(starts))

\* int(s) for a string of digits
RECURSIVE IntOf(_)
IntOf(s) ==
    IF Len(s) = 0 THEN 0
    ELSE 10 * IntOf(SubSeq(s, 1, Len(s) - 1))
            + (CHOOSE v \in 0..9 : DigitChars[v + 1] = s[Len(s)])

\* the decimal digits of n, at least width of them
RECURSIVE DigitsOf(_, _)
DigitsOf(n, width) ==
    IF n < 10 /\ width <= 1 THEN <<DigitChars[n + 1]>>
    ELSE Append(DigitsOf(n \div 10, width - 1), DigitChars[(n % 10) + 1])

IsLeap(year) == year % 4 = 0 /\ (year % 100 # 0 \/ year % 400 = 0)

DaysInMonth(year, month) ==
    IF month = 2 THEN (IF IsLeap(year) THEN 29 ELSE 28)
    ELSE IF month \in {4, 6, 9, 11} THEN 30 ELSE 31

\* datetime(year, month, day) does not raise ValueError
ValidDate(year, month, day) ==
    /\ year \in 1..9999
    /\ month \in 1..12
    /\ day \in 1..DaysInMonth(year, month)

\* date_obj.strftime("%Y-%m-%d"); %Y as glibc writes it, without padding
strftime(year, month, day) ==
    DigitsOf(year, 1) \o <<"-">> \o DigitsOf(month, 2) \o <<"-">> \o DigitsOf(day, 2)

\* the year of the match: a group of at most 3 digits below 200 is a
\* Republic-of-China year
YearOf(group) ==
    IF Len(group) <= 3 /\ IntOf(group) < 200 THEN IntOf(group) + 1911
    ELSE IntOf(group)

\* the loop over date_patterns from pattern k on.  groups[2] of a match with
\* two groups raises IndexError, which nothing catches; ValueError of
\* datetime goes on to the next pattern.
RECURSIVE TryPatterns(_, _)
TryPatterns(text, k) ==
    IF k > 4 THEN [kind |-> "returned", none |-> TRUE, date |-> <<>>]
    ELSE LET groups == SearchGroups(k, text)
         IN  IF groups = <<>> THEN TryPatterns(text, k + 1)
             ELSE IF Len(groups) < 3
             THEN [kind |-> "raised", none |-> FALSE, date |-> <<>>]
             ELSE LET year == YearOf(groups[1])
                      month == IntOf(groups[2])
                      day == IntOf(groups[3])
                  IN  IF ValidDate(year, month, day)
                      THEN [kind |-> "returned", none |-> FALSE,
                            date |-> strftime(year, month, day)]
                      ELSE TryPatterns(text, k + 1)

_extract_test_date(text_blocks) ==
    TryPatterns(_normalize_text(JoinBlocks(text_blocks)), 1)

\* the dates written on the reports handed to _extract_test_date
DateYears ==
    {<<"9", "9">>, <<"1", "1", "3">>, <<"1", "9", "9">>, <<"2", "0", "0">>,
     <<"2", "0", "2", "4">>, <<"2", "0", "2", "5">>}
DateMonths == {<<"2">>, <<"1", "1">>, <<"1", "3">>}
DateDays == {<<"5">>, <<"1", "5">>, <<"3", "0">>}
MonthNames == {<<"N", "o", "v">>, <<"N", "o", "v", "e", "m", "b", "e", "r">>}

\* one written date: its format and its parts
WrittenDates ==
    [format : {"chinese"}, year : DateYears, month : DateMonths, day : DateDays,
     comma : {FALSE}]
    \cup [format : {"slash", "dash"}, year : {y \in DateYears : Len(y) = 4},
          month : DateMonths, day : DateDays, comma : {FALSE}]
    \cup [format : {"english"}, year : {y \in DateYears : Len(y) = 4},
          month : MonthNames, day : DateDays, comma : BOOLEAN]

\* the characters of a written date
DateText(w) ==
    CASE w.format = "chinese" ->
            w.year \o <<"nian">> \o w.month \o <<"yue">> \o w.day \o <<"ri">>
      [] w.format = "slash" -> w.year \o <<"/">> \o w.month \o <<"/">> \o w.day
      [] w.format = "dash" -> w.year \o <<"-">> \o w.month \o <<"-">> \o w.day
      [] w.format = "english" ->
            w.month \o <<" ">> \o w.day
                \o (IF w.comma THEN <<",">> ELSE <<>>) \o <<" ">> \o w.year

\* a later block of the report that carries a date of its own
LaterDate ==
    [format |-> "slash", year |-> <<"2", "0", "2", "4">>, month |-> <<"1", "1">>,
     day |-> <<"1", "5">>, comma |-> FALSE]

\* the OCR text blocks: the date, with or without a label in front of it,
\* then possibly a block with the later date
DateBlocks(w, labelled, later) ==
    <<(IF labelled THEN <<"D", "a", "t", "e", ":", " ">> ELSE <<>>) \o DateText(w)>>
        \o (IF later THEN <<DateText(LaterDate)>> ELSE <<>>)

DateArgs ==
    {[fn |-> "_extract_test_date", written |-> w, labelled |-> l, later |-> n,
      text_blocks |-> DateBlocks(w, l, n)] :
        w \in WrittenDates, l \in BOOLEAN, n \in BOOLEAN}

InitDate == FnHarness(DateArgs)

\* parser._extract_test_date(text_blocks)
ExtractTestDate ==
    /\ fargs.fn = "_extract_test_date"
    /\ fret = NoReturn
    /\ fret' = _extract_test_date(fargs.text_blocks)
    /\ UNCHANGED <<fargs, retryvars, convvars, uvars, cfgvars, callvars, taskvars, batchvars>>

SpecDate == InitDate /\ [][ExtractTestDate]_vars

----------------------------------------------------------------------------
\* PDFConverter: conversions of PDF files and PDF bytes to page images

\* conversion calls made on one converter
MaxConversions == 2

\* tempfile.gettempdir()
TempDir == "tmp"

\* the output_dir argument
OutputDirs == {NoneV, "out"}

\* the PDFs handed to the converter: a path (directory, stem) or bytes
PdfSources ==
    { [kind |-> "path", dir |-> "a", stem |-> "report", exists |-> TRUE],
      [kind |-> "path", dir |-> "b", stem |-> "report", exists |-> TRUE],
      [kind |-> "path", dir |-> "a", stem |-> "scan", exists |-> TRUE],
      [kind |-> "path", dir |-> "nonexistent", stem |-> "path", exists |-> FALSE] }
PdfBytes == [kind |-> "bytes", dir |-> "", stem |-> "", exists |-> TRUE]

\* the entry points and the sources each one takes
ConversionCalls ==
    [entry : {"convert_pdf_to_images", "convert_pdf_to_images_sync"},
     source : PdfSources, output_dir : OutputDirs]
    \cup [entry : {"convert_pdf_bytes"}, source : {PdfBytes}, output_dir : OutputDirs]

\* what pdf2image raises when it cannot read its input
LibraryErrors == {"PDFInfoNotInstalledError", "PDFPageCountError", "PDFSyntaxError"}

\* if output_dir is None: output_dir = tempfile.gettempdir()
OutputDirectory(output_dir) == IF output_dir = NoneV THEN TempDir ELSE output_dir

\* f"{pdf_name}_page_{i + 1}.png" with pdf_name = Path(pdf_path).stem, and
\* f"health_report_page_{i + 1}.png" for bytes
PageFileStem(call) ==
    IF call.entry = "convert_pdf_bytes" THEN "health_report" ELSE call.source.stem

\* output_dir / image_filename
ImagePath(call, page) ==
    [dir |-> OutputDirectory(call.output_dir), stem |-> PageFileStem(call),
     page |-> page]

\* if not pdf_file.exists(): raise FileNotFoundError, in convert_pdf_to_images only
ChecksExists(entry_point) == entry_point = "convert_pdf_to_images"

Running(k) == conv[k].pc \in {"executor", "saving"}
Finished(k) == conv[k].pc \in {"returned", "raised"}

\* the call as it stands when the entry point has run up to its conversion
StartedCall(call, concurrent) ==
    LET refused == ChecksExists(call.entry) /\ ~call.source.exists
    IN  [entry |-> call.entry, source |-> call.source, output_dir |-> call.output_dir,
         pc |-> IF refused THEN "raised" ELSE "executor",
         exception |-> IF refused THEN "FileNotFoundError" ELSE "",
         attempted |-> FALSE, pages |-> 0, image_paths |-> <<>>,
         concurrent |-> concurrent]

\* a caller calls one entry point while other conversions may be running
CallConvert ==
    /\ conv_output = NoOutput
    /\ Len(conv) < MaxConversions
    /\ \E call \in ConversionCalls :
          conv' = Append(conv, StartedCall(call, {k \in 1..Len(conv) : Running(k)}))
    /\ UNCHANGED <<disk, conv_output, fnvars, retryvars, uvars, cfgvars, callvars,
                   taskvars, batchvars>>

\* convert_multiple_pdfs(pdf_paths, output_dir): one convert_pdf_to_images
\* task per path, gathered
CallConvertMultiple ==
    /\ conv_output = NoOutput
    /\ conv = <<>>
    /\ \E pdf_paths \in [1..MaxConversions -> PdfSources], output_dir \in OutputDirs :
          /\ conv' = [k \in 1..MaxConversions |->
                        StartedCall([entry |-> "convert_pdf_to_images",
                                     source |-> pdf_paths[k],
                                     output_dir |-> output_dir],
                                    1..(k - 1))]
          /\ conv_output' = [state |-> "gathering"]
    /\ UNCHANGED <<disk, fnvars, retryvars, uvars, cfgvars, callvars, taskvars,
                   batchvars>>

\* _perform_conversion / _perform_conversion_from_bytes up to the page loop:
\* convert_from_path or convert_from_bytes is called; it raises, or returns no
\* image (ValueError), or returns the page images
Convert(k) ==
    /\ conv[k].pc = "executor"
    /\ \/ \E error \in LibraryErrors :
             conv' = [conv EXCEPT ![k].pc = "raised", ![k].exception = error,
                                  ![k].attempted = TRUE]
       \/ /\ conv[k].source.exists
          /\ conv' = [conv EXCEPT ![k].pc = "raised", ![k].exception = "ValueError",
                                  ![k].attempted = TRUE]
       \/ /\ conv[k].source.exists
          /\ \E n \in 1..MaxPages :
                conv' = [conv EXCEPT ![k].pc = "saving", ![k].pages = n,
                                     ![k].attempted = TRUE]
    /\ UNCHANGED <<disk, conv_output, fnvars, retryvars, uvars, cfgvars, callvars,
                   taskvars, batchvars>>

\* one pass of `for i, image in enumerate(images)`: image.save(image_path) and
\* image_paths.append; after the last page the list is returned
SavePage(k) ==
    /\ conv[k].pc = "saving"
    /\ LET page == Len(conv[k].image_paths) + 1
           image_path == ImagePath(conv[k], page)
       IN  /\ disk' = [path \in DOMAIN disk \cup {image_path} |->
                          IF path = image_path THEN k ELSE disk[path]]
           /\ conv' = [conv EXCEPT
                          ![k].image_paths = Append(@, image_path),
                          ![k].pc = IF page = conv[k].pages THEN "returned" ELSE "saving"]
    /\ UNCHANGED <<conv_output, fnvars, retryvars, uvars, cfgvars, callvars, taskvars,
                   batchvars>>

\* convert_multiple_pdfs after gather(*tasks, return_exceptions=True): the dict
\* from pdf path to image paths, [] for a task that raised
GatherConversions ==
    /\ conv_output = [state |-> "gathering"]
    /\ \A k \in 1..Len(conv) : Finished(k)
    /\ LET last(source) ==
               SetMax({k \in 1..Len(conv) : conv[k].source = source})
       IN  conv_output' =
               [state |-> "returned",
                output |-> [source \in {conv[k].source : k \in 1..Len(conv)} |->
                              IF conv[last(source)].pc = "raised" THEN <<>>
                              ELSE conv[last(source)].image_paths]]
    /\ UNCHANGED <<conv, disk, fnvars, retryvars, uvars, cfgvars, callvars, taskvars,
                   batchvars>>

InitConvert ==
    /\ AuxIdle
    /\ upc = "off"
    /\ data1 = EmptyMap
    /\ data2 = EmptyMap
    /\ score_ret = -1
    /\ merged_ret = EmptyMap
    /\ ParserAtDefaults

NextConvert ==
    \/ CallConvert
    \/ CallConvertMultiple
    \/ \E k \in 1..Len(conv) : Convert(k)
    \/ \E k \in 1..Len(conv) : SavePage(k)
    \/ GatherConversions

SpecConvert == InitConvert /\ [][NextConvert]_vars

----------------------------------------------------------------------------
\* HealthReportParser._extract_from_ocr on the pages of one document

\* pages handed to one call of _extract_from_ocr
MaxReportPages == 3

\* what OCR may find on a page, and the page that fails
OcrPages ==
    PageOutcomes
    \cup { MkReport([bmi |-> "c"],
                    [systolic_bp |-> "c", total_cholesterol |-> "c",
                     fasting_glucose |-> "c"]),
           MkReport(EmptyMap, [fasting_glucose |-> "a"]) }

OcrArgs ==
    {[fn |-> "_extract_from_ocr", reports |-> reports] :
        reports \in UNION {[1..n -> OcrPages] : n \in 1..MaxReportPages}}

InitOcr == FnHarness(OcrArgs)

\* parser._extract_from_ocr(images), given what OCR finds on each image
ExtractFromOcr ==
    /\ fargs.fn = "_extract_from_ocr"
    /\ fret = NoReturn
    /\ fret' = [kind |-> "returned",
                data |-> _extract_from_ocr(fargs.reports).data,
                completeness |-> _extract_from_ocr(fargs.reports).completeness]
    /\ UNCHANGED <<fargs, retryvars, convvars, uvars, cfgvars, callvars, taskvars,
                   batchvars>>

SpecOcr == InitOcr /\ [][ExtractFromOcr]_vars

----------------------------------------------------------------------------
\* PaddleOCRHealthReportParser._extract_patient_info: gender.  The Chinese
\* characters are the tokens "xing" "bie" (gender), "nan" (male), "nv" (female)

UpperLetters ==
    <<"A", "B", "C", "D", "E", "F", "G", "H", "I", "J", "K", "L", "M",
      "N", "O", "P", "Q", "R", "S", "T", "U", "V", "W", "X", "Y", "Z">>
LowerLetters ==
    <<"a", "b", "c", "d", "e", "f", "g", "h", "i", "j", "k", "l", "m",
      "n", "o", "p", "q", "r", "s", "t", "u", "v", "w", "x", "y", "z">>

\* the character as re.IGNORECASE compares it
ToLower(c) ==
    IF \E i \in 1..26 : UpperLetters[i] = c
    THEN LowerLetters[CHOOSE i \in 1..26 : UpperLetters[i] = c]
    ELSE c

\* re.search(word, text, re.IGNORECASE) for a literal word
ContainsWord(text, word) ==
    \E p \in 1..Len(text) :
        \A i \in 1..Len(word) : ToLower(CharAt(text, p + i - 1)) = word[i]

\* re.search of the label, \s*, a colon, \s* and one of the characters
LabelledGender(text, characters) ==
    \E p \in 1..Len(text) :
        /\ CharAt(text, p) = "xing"
        /\ CharAt(text, p + 1) = "bie"
        /\ LET q == p + 2 + RunLength(text, p + 2, Whitespace)
               r == q + 1 + RunLength(text, q + 1, Whitespace)
           IN  /\ CharAt(text, q) \in {":", "fwcolon"}
               /\ ToLower(CharAt(text, r)) \in characters

\* re.search(r"Male|...", text, re.IGNORECASE)
ContainsMale(text) == ContainsWord(text, <<"m", "a", "l", "e">>)

NoGender == "<absent>"

\* the if / elif chain that sets patient_info["gender"]
gender_of(text_blocks) ==
    LET text == _normalize_text(JoinBlocks(text_blocks))
    IN  IF LabelledGender(text, {"nan", "m"}) THEN "M"
        ELSE IF LabelledGender(text, {"nv", "f"}) THEN "F"
        ELSE IF ContainsMale(text) \/ ContainsWord(text, <<"nan">>) THEN "M"
        ELSE IF ContainsWord(text, <<"f", "e", "m", "a", "l", "e">>)
                \/ ContainsWord(text, <<"nv">>) THEN "F"
        ELSE NoGender

\* what a report says about the patient's gender: a label, a separator and
\* the indication
GenderLabels ==
    {<<>>, <<"G", "e", "n", "d", "e", "r">>, <<"S", "e", "x">>, <<"xing", "bie">>}
GenderSeparators == {<<":">>, <<":", " ">>, <<"fwcolon">>, <<" ">>}
GenderWords ==
    { [sex |-> "female", spelled |-> TRUE, word |-> <<"F", "e", "m", "a", "l", "e">>],
      [sex |-> "female", spelled |-> TRUE, word |-> <<"f", "e", "m", "a", "l", "e">>],
      [sex |-> "female", spelled |-> FALSE, word |-> <<"F">>],
      [sex |-> "female", spelled |-> TRUE, word |-> <<"nv">>],
      [sex |-> "female", spelled |-> TRUE, word |-> <<"nv", "xing">>],
      [sex |-> "male", spelled |-> TRUE, word |-> <<"M", "a", "l", "e">>],
      [sex |-> "male", spelled |-> FALSE, word |-> <<"M">>],
      [sex |-> "male", spelled |-> TRUE, word |-> <<"nan">>],
      [sex |-> "male", spelled |-> TRUE, word |-> <<"nan", "xing">>],
      [sex |-> "none", spelled |-> FALSE, word |-> <<>>] }

GenderArgs ==
    {[fn |-> "_extract_patient_info", sex |-> w.sex, spelled |-> w.spelled,
      text_blocks |-> <<label \o (IF label = <<>> THEN <<>> ELSE sep) \o w.word>>] :
        label \in GenderLabels, sep \in GenderSeparators, w \in GenderWords}

InitGender == FnHarness(GenderArgs)

\* parser._extract_patient_info(text_blocks), the gender it returns
ExtractPatientInfo ==
    /\ fargs.fn = "_extract_patient_info"
    /\ fret = NoReturn
    /\ fret' = [kind |-> "returned", gender |-> gender_of(fargs.text_blocks)]
    /\ UNCHANGED <<fargs, retryvars, convvars, uvars, cfgvars, callvars, taskvars,
                   batchvars>>

SpecGender == InitGender /\ [][ExtractPatientInfo]_vars

----------------------------------------------------------------------------
\* C1: the score of every field map is (number of required keys whose value is
\* present, not None and not an empty string) / 7; extra keys never change it.
C1_ScoreCountsNonEmptyRequired ==
    upc = "returned" =>
        score_ret = Cardinality({f \in REQUIRED_FIELDS : FieldCountsNonEmpty(data1, f)})

----------------------------------------------------------------------------
\* C2: in merge(primary, secondary) every key whose primary value is present
\* and non-empty (truthy) keeps the primary value; every key absent or empty
\* (falsy) in primary and present in secondary takes the secondary value; the
\* key set of the result is keys(primary) union keys(secondary).
C2_MergePrecedence ==
    upc = "returned" =>
        /\ DOMAIN merged_ret = DOMAIN data1 \cup DOMAIN data2
        /\ \A k \in DOMAIN data1 : ~Falsy(data1[k]) => merged_ret[k] = data1[k]
        /\ \A k \in DOMAIN data2 :
              (k \notin DOMAIN data1 \/ Falsy(data1[k])) => merged_ret[k] = data2[k]
        /\ \A k \in DOMAIN data1 \ DOMAIN data2 : merged_ret[k] = data1[k]

\* both maps hold the same key, primary empty on one key and non-empty on another
C2_MergeWitness ==
    /\ upc = "returned"
    /\ \E k \in DOMAIN data1 \cap DOMAIN data2 :
          ~Falsy(data1[k]) /\ ~Falsy(data2[k]) /\ data1[k] # data2[k]
    /\ \E k \in DOMAIN data1 \cap DOMAIN data2 : Falsy(data1[k]) /\ ~Falsy(data2[k])

----------------------------------------------------------------------------
\* Vocabulary of the pipeline claims

Range(seq) == {seq[k] : k \in 1..Len(seq)}

Done(i) == pc[i] = "done"
OcrRan(i) == "ocr" \in Range(calls[i])
FallbackInvoked(i) == "fallback" \in Range(calls[i])

\* fallback not disabled: the per-call argument when given, else the instance's
FallbackEnabled ==
    \/ override = "True"
    \/ override = "None" /\ use_llm_fallback

\* OCR completeness strictly below the threshold, as fractions
StrictlyBelow(i) ==
    gate_completeness[i] * min_completeness_threshold.den
        < 7 * min_completeness_threshold.num

EqualsThreshold(i) ==
    gate_completeness[i] * min_completeness_threshold.den
        = 7 * min_completeness_threshold.num

\* the envelope is the OCR-only result
OcrOnlyResult(i) ==
    /\ envelope[i].source = "ocr"
    /\ envelope[i].data = ocr_data[i]
    /\ envelope[i].completeness = gate_completeness[i]

----------------------------------------------------------------------------
----------------------------------------------------------------------------
\* C4: OCR completeness below the threshold, fallback enabled and the fallback
\* returning at least one additional field give source "hybrid", data =
\* merge(ocr_data, llm_data) with every non-empty OCR value retained, and
\* completeness = the score of the merged data.
FallbackAddedField(i) ==
    /\ Done(i) /\ OcrRan(i) /\ StrictlyBelow(i) /\ FallbackEnabled
    /\ DOMAIN llm_data[i] \ DOMAIN ocr_data[i] # {}

C4_HybridOnAdditionalField ==
    \A i \in Tasks :
        FallbackAddedField(i) =>
            /\ envelope[i].source = "hybrid"
            /\ DOMAIN envelope[i].data = DOMAIN ocr_data[i] \cup DOMAIN llm_data[i]
            /\ \A k \in DOMAIN ocr_data[i] :
                  ~Falsy(ocr_data[i][k]) => envelope[i].data[k] = ocr_data[i][k]
            /\ \A k \in DOMAIN llm_data[i] \ DOMAIN ocr_data[i] :
                  envelope[i].data[k] = llm_data[i][k]
            /\ envelope[i].completeness =
                  Cardinality({f \in REQUIRED_FIELDS \cap DOMAIN envelope[i].data :
                                  envelope[i].data[f] # NoneV})

\* the fallback added glucose and offered another bmi than the OCR's
C4_HybridWitness ==
    \E i \in Tasks :
        /\ FallbackAddedField(i)
        /\ "bmi" \in DOMAIN ocr_data[i] \cap DOMAIN llm_data[i]
        /\ ocr_data[i]["bmi"] # llm_data[i]["bmi"]
        /\ envelope[i].completeness > gate_completeness[i]

----------------------------------------------------------------------------
\* C5: a fallback that was attempted and returned nothing useful (an empty map)
\* gives the OCR-only result with source "ocr", never "hybrid".
C5_EmptyFallbackIsOcr ==
    \A i \in Tasks :
        (Done(i) /\ FallbackInvoked(i) /\ llm_data[i] = EmptyMap) => OcrOnlyResult(i)

----------------------------------------------------------------------------
\* C6: parse always returns an envelope; for a missing file or an unsupported
\* extension it has source "error", empty data, completeness 0.0 and a
\* non-empty message, and no rasterization, normalization, OCR or fallback
\* call is made for the file.
Rejected(f) ==
    \/ ~f.exists
    \/ f.suffix \notin {".pdf", ".PDF", ".jpg", ".JPG", ".jpeg", ".JPEG", ".png", ".PNG"}

----------------------------------------------------------------------------
\* C7: an existing file of a supported type whose size exceeds the configured
\* maximum is rejected: error envelope, and no rasterization, OCR or fallback
\* is attempted on it.
Oversize(f) == f.exists /\ ~Rejected(f) /\ f.size_mb > ConfigMaxFileSizeMB

C7_OversizeRejected ==
    \A i \in Tasks :
        Oversize(file_paths[i]) =>
            /\ Range(calls[i]) \cap {"rasterize", "ocr", "fallback"} = {}
            /\ Done(i) => envelope[i].source = "error"

----------------------------------------------------------------------------
\* C8: every envelope parse returns has source "error" with a non-empty
\* message, or a non-empty data map; none has source "ocr" or "hybrid" with
\* empty data.
C8_NoEmptySuccess ==
    \A i \in Tasks :
        Done(i) =>
            \/ envelope[i].source = "error" /\ envelope[i].error # ""
            \/ envelope[i].source # "error" /\ envelope[i].data # EmptyMap

----------------------------------------------------------------------------
\* Vocabulary of the batch claims

BatchReturned == batch_result # NoBatchResult

\* per-file data maps of the files whose parse succeeded with some data
FileData(j) == envelope[j].data
Contributes(j) == envelope[j].source # "error" /\ DOMAIN FileData(j) # {}

\* the left fold of merge over the contributing files in input order, key by
\* key: the first non-empty value offered for the key, else the last value
FoldInInputOrder ==
    LET keys == UNION {DOMAIN FileData(j) : j \in {t \in Tasks : Contributes(t)}}
        offers(k) == {j \in Tasks : Contributes(j) /\ k \in DOMAIN FileData(j)}
        truthy(k) == {j \in offers(k) : ~Falsy(FileData(j)[k])}
    IN  [k \in keys |->
            IF truthy(k) # {} THEN FileData(SetMin(truthy(k)))[k]
            ELSE FileData(SetMax(offers(k)))[k]]

----------------------------------------------------------------------------
\* C9: parse_batch returns one envelope per input file, in input order; a
\* failed file yields an error envelope in its own slot and the others are
\* still returned and merged; merged_data is the left fold of merge over the
\* successful files' data in input order, whatever the completion order.
C9_BatchInInputOrder ==
    BatchReturned =>
        /\ Len(batch_result.results) = Len(file_paths)
        /\ \A j \in Tasks :
              /\ batch_result.results[j] = envelope[j]
              /\ batch_result.results[j].file_path = file_paths[j].path
              /\ ~file_paths[j].exists => batch_result.results[j].source = "error"
        /\ merge_results => batch_result.merged_data = FoldInInputOrder

\* the second file completed first, both offer a different non-empty bmi
C9_OutOfOrderCompletion ==
    /\ BatchReturned /\ merge_results
    /\ Len(file_paths) >= 2
    /\ done_order[1] = 2
    /\ Contributes(1) /\ Contributes(2)
    /\ "bmi" \in DOMAIN FileData(1) \cap DOMAIN FileData(2)
    /\ FileData(1)["bmi"] # FileData(2)["bmi"]

----------------------------------------------------------------------------
\* C10: when every file of a parse_batch call fails, the batch result carries
\* a batch-level failure indication that distinguishes it from the result of
\* a batch that succeeded.
BatchLevelFields(r) == [k \in DOMAIN r \ {"results"} |-> r[k]]

\* a batch of one photo in which OCR recognised no field and no fallback ran
SucceededBatch ==
    BatchResult(<<ResultEnvelope(MkFile("photo.jpg", TRUE, ".jpg", 1),
                                 EmptyMap, 0, "ocr")>>, merge_results)

C10_AllFailedIsIndicated ==
    ( /\ BatchReturned
      /\ Len(file_paths) > 0
      /\ \A j \in Tasks : envelope[j].source = "error" )
    => BatchLevelFields(batch_result) # BatchLevelFields(SucceededBatch)

----------------------------------------------------------------------------
\* C11: within one parse the steps are strictly ordered and none is
\* speculative: normalization has completed before OCR starts, OCR has
\* completed before the completeness is scored, the completeness is scored
\* before the fallback decision, and the fallback is never started before the
\* OCR completeness of the file is known.
IsImagePath(f) == f.suffix \in {".jpg", ".JPG", ".jpeg", ".JPEG", ".png", ".PNG"}

\* position of a step in the order load, normalize, OCR, fallback
StepRank(step) ==
    CASE step \in {"load", "rasterize"} -> 1
      [] step = "normalize" -> 2
      [] step = "ocr" -> 3
      [] step = "fallback" -> 4

OcrStarted(i) == pc[i] = "ocr" \/ OcrRan(i)
FallbackStarted(i) == pc[i] = "fallback" \/ FallbackInvoked(i)

C11_StepsStrictlyOrdered ==
    \A i \in Tasks :
        /\ \A a, b \in 1..Len(calls[i]) :
              a < b => StepRank(calls[i][a]) < StepRank(calls[i][b])
        /\ (OcrStarted(i) /\ preprocess_images /\ IsImagePath(file_paths[i]))
              => "normalize" \in Range(calls[i])
        /\ pc[i] = "normalizing" => ~OcrRan(i) /\ ~FallbackInvoked(i)
        /\ pc[i] = "ocr" => ~FallbackInvoked(i)
        /\ FallbackStarted(i) =>
              /\ OcrRan(i)
              /\ gate_completeness[i] =
                    Cardinality({f \in REQUIRED_FIELDS \cap DOMAIN ocr_data[i] :
                                    ocr_data[i][f] # NoneV})
              /\ StrictlyBelow(i)

\* a photo went through all four steps
C11_AllStepsTaken ==
    \E i \in Tasks :
        Done(i) /\ calls[i] = <<"load", "normalize", "ocr", "fallback">>

----------------------------------------------------------------------------
\* C12: extract_with_retry(max_retries = N) makes at most N extraction
\* attempts, each issuing at most one LLM request; it stops at the first
\* attempt that returns a non-empty map and returns that map (one request only
\* when the first attempt succeeds); if all N attempts fail or return empty it
\* returns an empty map; it never raises.
RetryReturned == rpc = "returned"
AttemptsMade == Len(attempts)
Succeeded(k) == attempts[k].result # EmptyMap

C12_RetryAtMostNStopsAtFirstSuccess ==
    /\ AttemptsMade <= max_retries
    /\ \A k \in 1..AttemptsMade : attempts[k].requests \in {0, 1}
    /\ \A k \in 1..AttemptsMade : Succeeded(k) => k = AttemptsMade /\ RetryReturned
    /\ RetryReturned =>
          IF AttemptsMade > 0 /\ Succeeded(AttemptsMade)
          THEN retry_ret = attempts[AttemptsMade].result
          ELSE retry_ret = EmptyMap /\ AttemptsMade = max_retries

\* the second of three allowed attempts succeeded after a failed request
C12_SecondAttemptSucceeds ==
    /\ RetryReturned
    /\ max_retries = 3
    /\ AttemptsMade = 2
    /\ attempts[1].requests = 1
    /\ retry_ret # EmptyMap

----------------------------------------------------------------------------
\* C13: extract_with_retry waits 2^k seconds after a failed attempt k
\* (0-based) that is not the last one, before attempt k+1 starts, whatever the
\* kind of failure: no two consecutive attempts without a backoff wait.
RECURSIVE Pow2(_)
Pow2(k) == IF k = 0 THEN 1 ELSE 2 * Pow2(k - 1)

C13_BackoffBetweenAttempts ==
    \A k \in 1..AttemptsMade :
        k < AttemptsMade => attempts[k].slept = Pow2(k - 1)

----------------------------------------------------------------------------
\* C14: extract never raises: on an LLM call error, an unparseable response,
\* a missing file, an oversize file or an unsupported file type it returns
\* an empty map; a response that is valid JSON but not an object also yields
\* an empty map.
ExtractFailure(input, response) ==
    \/ response.kind \in {"error", "invalid", "list"}
    \/ /\ ~input.is_text
       /\ \/ ~input.file.exists
          \/ input.file.size_mb > LlmMaxFileSizeMB
          \/ input.file.suffix \notin
                {".pdf", ".PDF", ".jpg", ".JPG", ".jpeg", ".JPEG", ".png", ".PNG"}

C14_ExtractNeverRaises ==
    (fargs.fn = "extract" /\ fret # NoReturn) =>
        /\ fret.kind = "returned"
        /\ ExtractFailure(fargs.input, fargs.response) => fret.value = EmptyMap

\* the model answered a photo with text that is not JSON
C14_UnparseableAnswer ==
    /\ fargs.fn = "extract" /\ fret # NoReturn
    /\ ~fargs.input.is_text /\ fargs.input.file.path = "photo.jpg"
    /\ fargs.response.kind = "invalid"
    /\ fret.value = EmptyMap

----------------------------------------------------------------------------
\* Vocabulary of the resize claims
Resizing == fargs.fn = "_resize_for_ocr" /\ fret # NoReturn
ShortIn == IF fargs.height <= fargs.width THEN fargs.height ELSE fargs.width
LongIn == IF fargs.height >= fargs.width THEN fargs.height ELSE fargs.width
ShortOut ==
    IF fret.value.height <= fret.value.width THEN fret.value.height
    ELSE fret.value.width
LongOut ==
    IF fret.value.height >= fret.value.width THEN fret.value.height
    ELSE fret.value.width

\* out is edge * num / den, up to the rounding of the pixel count
ScaledBy(out, edge, num, den) ==
    out * den <= edge * num /\ edge * num < (out + 2) * den

----------------------------------------------------------------------------
\* C15: every normalized image satisfies both size bounds at once: for every
\* input width and height, of any aspect ratio, the output's short edge is
\* >= 1000 pixels and its long edge is <= 2000 pixels.
C15_BothBoundsAtOnce ==
    Resizing => ShortOut >= 1000 /\ LongOut <= 2000

----------------------------------------------------------------------------
\* C16: the two resize branches are exclusive and checked in order.  With
\* min(h,w) < 1000 only the upscale by 1000/min(h,w) is applied, also when
\* max(h,w) > 2000, and the result has min(h',w') >= 1000; with
\* min(h,w) >= 1000 and max(h,w) > 2000 the result has max(h',w') <= 2000;
\* with 1000 <= min and max <= 2000 the dimensions are unchanged.
C16_ResizePolicy ==
    Resizing =>
        /\ ShortIn < 1000 =>
              /\ ScaledBy(fret.value.height, fargs.height, 1000, ShortIn)
              /\ ScaledBy(fret.value.width, fargs.width, 1000, ShortIn)
              /\ ShortOut >= 1000
        /\ (ShortIn >= 1000 /\ LongIn > 2000) => LongOut <= 2000
        /\ (ShortIn >= 1000 /\ LongIn <= 2000) =>
              fret.value = [height |-> fargs.height, width |-> fargs.width]

----------------------------------------------------------------------------
\* C17: each risk-assessment function is total and returns exactly the band
\* of the fixed cut-point table for every value; a value on a cut-point falls
\* into the band that starts at that cut-point (199 normal, 200 borderline,
\* 240 high).
\* The table: per metric the bands as <<first value in tenths, level>>.
RiskBands ==
    [total_cholesterol |-> {<<0, "normal">>, <<2000, "borderline">>, <<2400, "high">>},
     ldl_cholesterol |-> {<<0, "normal">>, <<1000, "borderline">>,
                          <<1300, "borderline_high">>, <<1600, "high">>},
     hdl_cholesterol |-> {<<0, "high">>, <<400, "borderline">>, <<600, "normal">>},
     triglycerides |-> {<<0, "normal">>, <<1500, "borderline">>, <<2000, "high">>},
     systolic_bp |-> {<<0, "normal">>, <<1200, "elevated">>, <<1300, "stage1">>,
                      <<1400, "high">>},
     diastolic_bp |-> {<<0, "normal">>, <<800, "stage1">>, <<900, "high">>},
     fasting_glucose |-> {<<0, "normal">>, <<1000, "borderline">>, <<1260, "high">>},
     hba1c |-> {<<0, "normal">>, <<57, "borderline">>, <<65, "high">>},
     waist_circumference |-> {<<0, "normal">>, <<800, "borderline">>, <<900, "high">>}]

\* the band of the table a value falls into
BandOf(metric, value) ==
    CHOOSE band \in RiskBands[metric] :
        /\ band[1] <= value
        /\ \A other \in RiskBands[metric] : other[1] <= value => other[1] <= band[1]

Assessed == fargs.fn = "risk_level" /\ fret # NoReturn

C17_RiskBandsMatchTable ==
    Assessed =>
        /\ fret.kind = "returned"
        /\ fret.value = BandOf(fargs.metric, fargs.value)[2]

\* total cholesterol of exactly 200 was assessed
C17_OnCutPoint ==
    /\ Assessed
    /\ fargs.metric = "total_cholesterol" /\ fargs.value = 2000
    /\ fret.value = "borderline"

----------------------------------------------------------------------------
\* Vocabulary of the date claims
DateExtracted == fargs.fn = "_extract_test_date" /\ fret # NoReturn

\* the number a string of digits writes
NumberOf(digits) == IntOf(digits)

\* YYYY-MM-DD
IsoDate(year, month, day) ==
    <<DigitChars[(year \div 1000) + 1], DigitChars[((year \div 100) % 10) + 1],
      DigitChars[((year \div 10) % 10) + 1], DigitChars[(year % 10) + 1], "-",
      DigitChars[(month \div 10) + 1], DigitChars[(month % 10) + 1], "-",
      DigitChars[(day \div 10) + 1], DigitChars[(day % 10) + 1]>>

\* month and day exist in the calendar of the year
InCalendar(year, month, day) ==
    /\ month \in 1..12
    /\ day >= 1
    /\ day <= (IF month = 2
               THEN (IF year % 4 = 0 /\ (year % 100 # 0 \/ year % 400 = 0)
                     THEN 29 ELSE 28)
               ELSE IF month \in {4, 6, 9, 11} THEN 30 ELSE 31)

Returns(date) == fret.kind = "returned" /\ ~fret.none /\ fret.date = date

\* the Gregorian year a Chinese-format year stands for
GregorianYear(year) ==
    IF Len(year) < 4 THEN NumberOf(year) + 1911 ELSE NumberOf(year)

----------------------------------------------------------------------------
\* C18: test-date extraction returns the correct Gregorian ISO date for
\* Chinese-format dates: a year N < 200 is a Republic-of-China year and yields
\* N + 1911 (113-11-15 gives 2024-11-15), a four-digit Gregorian year is kept
\* (2024-11-15 gives 2024-11-15).
C18_ChineseDates ==
    LET w == fargs.written
        year == GregorianYear(w.year)
    IN  ( /\ DateExtracted
          /\ w.format = "chinese" /\ ~fargs.later
          /\ Len(w.year) = 4 \/ NumberOf(w.year) < 200
          /\ InCalendar(year, NumberOf(w.month), NumberOf(w.day)) )
        => Returns(IsoDate(year, NumberOf(w.month), NumberOf(w.day)))

----------------------------------------------------------------------------
\* C19: test-date extraction supports abbreviated English month formats: for
\* a text whose only date has the form 'Nov 15, 2024' it completes without
\* raising and returns '2024-11-15'; and when an earlier pattern matches an
\* invalid calendar date, that match is skipped and the next pattern is tried.
C19_EnglishDatesAndSkipping ==
    LET w == fargs.written
    IN  /\ ( /\ DateExtracted
              /\ w.format = "english" /\ ~fargs.later
              /\ InCalendar(NumberOf(w.year), 11, NumberOf(w.day)) )
            => Returns(IsoDate(NumberOf(w.year), 11, NumberOf(w.day)))
        /\ ( /\ DateExtracted
              /\ w.format = "chinese" /\ fargs.later
              /\ NumberOf(w.year) < 200
              /\ ~InCalendar(GregorianYear(w.year), NumberOf(w.month), NumberOf(w.day)) )
            => Returns(IsoDate(2024, 11, 15))

----------------------------------------------------------------------------
\* C20: every parse call eventually returns an envelope, even when the
\* fallback LLM request never responds: the fallback call is bounded by a
\* request timeout and a timeout gives the OCR-only result.
C20_ParseEventuallyReturns ==
    (entry = "parse") ~> (\A i \in Tasks : pc[i] = "done" /\ envelope[i] # NoEnvelope)

----------------------------------------------------------------------------
\* C21: when the caller cancels parse_batch while per-file parses are in
\* flight, every task that has not returned is cancelled where it is suspended
\* and yields no result envelope, and no merged_data is ever built from a
\* batch with a cancelled file.
C21_CancellationNotSwallowed ==
    [][ /\ (batch_result = NoBatchResult /\ batch_result' = CancelledBatch)
            => \A i \in Tasks :
                  IF pc[i] = "done"
                  THEN pc'[i] = "done" /\ envelope'[i] = envelope[i]
                  ELSE pc'[i] = "cancelled" /\ envelope'[i] = NoEnvelope
        /\ (\E i \in DOMAIN pc' : pc'[i] = "cancelled")
            => "merged_data" \notin DOMAIN batch_result' ]_vars

\* a batch cancelled with one file already parsed to data and another suspended in OCR
C21_CancelledInFlight ==
    /\ batch_result = CancelledBatch
    /\ \E i, j \in Tasks :
          /\ pc[i] = "cancelled" /\ calls[i] # <<>> /\ envelope[i] = NoEnvelope
          /\ pc[j] = "done" /\ DOMAIN envelope[j].data # {}

----------------------------------------------------------------------------
\* C22: rasterizing a missing source file fails with FileNotFoundError on
\* every entry point of the PDF converter (the async convert_pdf_to_images and
\* the sync convert_pdf_to_images_sync), before any conversion is attempted.
C22_MissingFileNotFound ==
    \A k \in 1..Len(conv) :
        (conv[k].source.kind = "path" /\ ~conv[k].source.exists)
        => /\ ~conv[k].attempted
           /\ conv[k].pc \in {"returned", "raised"}
              => conv[k].pc = "raised" /\ conv[k].exception = "FileNotFoundError"

----------------------------------------------------------------------------
\* C23: every envelope parse returns, for a successful parse and for a
\* failed one alike, contains the keys data, completeness, source, file_path
\* and file_type, with error present in addition on failure.
C23_UniformEnvelope ==
    \A i \in Tasks :
        pc[i] = "done"
        => /\ {"data", "completeness", "source", "file_path", "file_type"}
                 \subseteq DOMAIN envelope[i]
           /\ ("error" \in DOMAIN envelope[i]) <=> (envelope[i].source = "error")

----------------------------------------------------------------------------
\* C24: for every supported file type the image handed to OCR has first
\* passed through the normalizer when preprocessing is enabled: each page
\* rasterized from a PDF is normalized before OCR runs on it, exactly as a
\* JPEG or PNG upload is.
C24_NormalizedBeforeOcr ==
    \A i \in Tasks :
        (preprocess_images /\ \E k \in DOMAIN calls[i] : calls[i][k] = "ocr")
        => \E n, k \in DOMAIN calls[i] :
              n < k /\ calls[i][n] = "normalize" /\ calls[i][k] = "ocr"

----------------------------------------------------------------------------
\* Vocabulary of the page claims
OcrExtracted == fargs.fn = "_extract_from_ocr" /\ fret # NoReturn
Pages == 1..Len(fargs.reports)
NoPageFailed == \A p \in Pages : ~fargs.reports[p].raised

\* the first page on which metric m is extracted
FirstPageWith(m) ==
    CHOOSE p \in Pages :
        /\ m \in DOMAIN fargs.reports[p].vital_signs
        /\ \A q \in 1..(p - 1) : m \notin DOMAIN fargs.reports[q].vital_signs

----------------------------------------------------------------------------
\* C25: when the pages of one document are combined into the document-level
\* result, precedence applies in page order: a non-empty metric value
\* extracted from an earlier page is never overwritten by the value of the
\* same metric extracted from a later page.
C25_EarlierPageWins ==
    (OcrExtracted /\ NoPageFailed)
    => \A p \in Pages : \A m \in DOMAIN fargs.reports[p].vital_signs :
          /\ m \in DOMAIN fret.data
          /\ fret.data[m] = fargs.reports[FirstPageWith(m)].vital_signs[m]

----------------------------------------------------------------------------
\* C26: the completeness that parse compares against
\* min_completeness_threshold equals the completeness that _extract_from_ocr
\* reports for the same extracted data: the 7 required fields are counted the
\* same way in both places.
C26_GateScoreIsOcrScore ==
    \A i \in Tasks :
        (\E k \in DOMAIN calls[i] : calls[i][k] = "ocr")
        => gate_completeness[i] = ocr_completeness[i]

----------------------------------------------------------------------------
\* C27: merging never lowers completeness: for all field maps p and s,
\* completeness(merge(p, s)) >= completeness(p).
C27_MergeNeverLowersCompleteness ==
    (upc = "returned" /\ score_ret = -1)
    => _check_completeness(merged_ret) >= _check_completeness(data1)

----------------------------------------------------------------------------
\* C28: concurrent PDF conversions never write to the same output image
\* path: for any two conversions running at the same time (two
\* convert_pdf_bytes calls, or the per-file tasks of convert_multiple_pdfs,
\* with the same or the default output directory) the lists of page-image
\* paths they return are disjoint, so no conversion's page image is
\* overwritten by another's.
C28_ConcurrentPathsDisjoint ==
    \A k, l \in 1..Len(conv) :
        (k \in conv[l].concurrent /\ conv[k].pc = "returned" /\ conv[l].pc = "returned")
        => /\ {conv[k].image_paths[n] : n \in 1..Len(conv[k].image_paths)}
                 \cap {conv[l].image_paths[n] : n \in 1..Len(conv[l].image_paths)} = {}
           /\ \A n \in 1..Len(conv[k].image_paths) : disk[conv[k].image_paths[n]] = k

----------------------------------------------------------------------------
\* C29: an OCR failure on one page of a multi-page document is isolated to
\* that page: the fields extracted from the other pages are still present in
\* the document-level OCR result.
C29_PageFailureIsolated ==
    OcrExtracted
    => \A p \in Pages :
          ~fargs.reports[p].raised
          => DOMAIN fargs.reports[p].vital_signs \subseteq DOMAIN fret.data

----------------------------------------------------------------------------
\* C30: patient gender extraction never classifies a female indication as
\* male: for text whose only gender indication is female ('Gender: Female',
\* the labelled and the bare Chinese forms) the ordered alternatives yield
\* 'F', and 'M' is produced only for text with a male indication.
C30_FemaleNeverMale ==
    (fargs.fn = "_extract_patient_info" /\ fret # NoReturn)
    => /\ (fargs.sex = "female" /\ fargs.spelled) => fret.gender = "F"
       /\ fret.gender = "M" => fargs.sex = "male"

====
